---- MODULE Spec2Model ----
(***************************************************************************)
(* State-machine model of scripts/download-strain.py: the GWOSC catalog    *)
(* client (get_all_events), the source locator (get_strain_urls), the      *)
(* per-detector acquisition (download_hdf5, extract_strain, save_bin) and  *)
(* the driver (process_event, main) with its manifest.                     *)
(***************************************************************************)
EXTENDS Integers, Sequences, FiniteSets, TLC

VARIABLES
    pc,               \* position of the script
    data,             \* the remote catalog index: data["events"] in iteration order
    events,           \* main: the grouped catalog, name -> sorted appearances
    event_versions,   \* get_strain_urls: its argument
    responses,        \* what the server answers to each candidate's detail request
    located,          \* what get_strain_urls did: status, urls, gps, requests
    runs,             \* runs of the script started so far
    disk,             \* OUTPUT_DIR: event name -> (stem of a .bin file -> byte size)
    manifest_file,    \* manifest.json: event name -> entry
    manifest_cut,     \* TRUE when manifest.json holds a cut-off text, no JSON
    manifest,         \* main: the manifest dict in memory
    queue,            \* main: the events still to process, in sorted order
    success,          \* main: the success counter
    name,             \* process_event: the event
    urls,             \* process_event: detector -> url
    gps_start,        \* process_event: the GPS start to record
    todo,             \* process_event: detectors of sorted(urls.items()) still to do
    detectors_saved,  \* process_event: the detectors saved in this pass
    tmp_path,         \* TRUE while the scratch file of the attempt exists
    ret,              \* what process_event gave: "True", "False" or "raise"
    leaked,           \* TRUE when a scratch file of an aborted run is left on disk
    requests,         \* network requests issued by this call of process_event
    attempts,         \* the per-detector attempts of this call, in order
    path,             \* the way this call of process_event ended
    last,             \* event name -> what last happened to it
    hdf5,             \* extract_strain: what the file at hdf5_path holds
    extracted,        \* extract_strain: what it returned
    calls,            \* the events passed to process_event in this run, in order
    writes,           \* the times this run wrote the manifest file
    assigned,         \* the events whose manifest[name] this run assigned
    outcome           \* the way the last run of the script ended

script == <<runs, manifest, queue, success, name, urls, gps_start, todo,
            detectors_saved, tmp_path, ret, requests, attempts, path>>
world == <<disk, manifest_file, manifest_cut, leaked, last>>
history == <<calls, writes, assigned>>
vars == <<pc, data, events, event_versions, responses, located, script, world,
          hdf5, extracted, history, outcome>>

(***************************************************************************)
(* Module constants of the script.                                         *)
(***************************************************************************)
SAMPLE_RATE == 4096
DURATION == 32
DETECTORS == <<"H1", "L1", "V1">>

CATALOG_PRIORITY ==
    ("O1_O2-Preliminary" :> 0) @@ ("GWTC-1-marginal" :> 1) @@
    ("GWTC-2.1-marginal" :> 2) @@ ("GWTC-3-marginal" :> 3) @@
    ("GWTC-1-confident" :> 5) @@ ("GWTC-2" :> 6) @@
    ("GWTC-2.1-confident" :> 7) @@ ("GWTC-3-confident" :> 8) @@
    ("O4_Discovery_Papers" :> 9)

(***************************************************************************)
(* Bounds of the model.                                                    *)
(***************************************************************************)
MaxSortLen == 3        \* entries of the index in the catalog-client checks
MaxCandidates == 2     \* appearances handed to get_strain_urls
MaxRuns == 2           \* runs of the script

Range(s) == {s[i] : i \in DOMAIN s}
SeqsUpTo(S, n) == UNION {[1..k -> S] : k \in 0..n}
EmptyMap == [x \in {} |-> 0]

(***************************************************************************)
(* get_all_events: grouping by commonName and the priority sort.           *)
(* An index entry is [commonName, catalog, GPS, jsonurl]; a missing        *)
(* commonName, catalog.shortName or jsonurl is "" and a missing GPS is 0,  *)
(* the defaults of the .get calls.                                         *)
(***************************************************************************)
\* key=lambda e: CATALOG_PRIORITY.get(e.get("catalog.shortName", ""), 0)
SortKey(e) ==
    IF e.catalog \in DOMAIN CATALOG_PRIORITY THEN CATALOG_PRIORITY[e.catalog] ELSE 0

\* An insertion that puts equal keys in reverse discovery order.
RECURSIVE InsertReversingTies(_, _)
InsertReversingTies(sorted, e) ==
    IF sorted = <<>> THEN <<e>>
    ELSE IF SortKey(Head(sorted)) > SortKey(e)
         THEN <<Head(sorted)>> \o InsertReversingTies(Tail(sorted), e)
         ELSE <<e>> \o sorted

\* list.sort is stable, also with reverse=True: an element goes after every
\* element already placed whose key is greater or equal.
RECURSIVE InsertByPriority(_, _)
InsertByPriority(sorted, e) ==
    IF sorted = <<>> THEN <<e>>
    ELSE IF SortKey(Head(sorted)) >= SortKey(e)
         THEN <<Head(sorted)>> \o InsertByPriority(Tail(sorted), e)
         ELSE <<e>> \o sorted

RECURSIVE SortByPriority(_)
SortByPriority(group) ==
    IF group = <<>> THEN <<>>
    ELSE InsertByPriority(SortByPriority(SubSeq(group, 1, Len(group) - 1)),
                          group[Len(group)])

HasName(e) == e.commonName # ""
Grouped(index, n) == SelectSeq(index, LAMBDA e : e.commonName = n)

get_all_events(index) ==
    [n \in {e.commonName : e \in {x \in Range(index) : HasName(x)}} |->
        SortByPriority(Grouped(index, n))]

(***************************************************************************)
(* get_strain_urls.  A candidate's detail request is answered by a         *)
(* response [kind, events]: kind "URLError" (urlopen raises URLError or    *)
(* HTTPError), "malformed" (the body is not JSON: json.loads raises        *)
(* JSONDecodeError, a ValueError) or "json" (a parsed detail whose events  *)
(* mapping is the sequence events; an event_data is [has_strain, strain]). *)
(* A strain entry is [detector, sampling_rate, format, duration, url].     *)
(***************************************************************************)
\* for _key, event_data in detail["events"].items(): the first one with "strain"
RECURSIVE StrainEntries(_)
StrainEntries(detail_events) ==
    IF detail_events = <<>> THEN <<>>
    ELSE IF Head(detail_events).has_strain THEN Head(detail_events).strain
         ELSE StrainEntries(Tail(detail_events))

\* A filter that takes a source of any duration.
MatchesAnyDuration(s) ==
    /\ s.detector \in Range(DETECTORS)
    /\ s.sampling_rate = SAMPLE_RATE
    /\ s.format = "hdf5"
\* lines 120-125: the four constraints of the filter
Matches(s) ==
    /\ s.detector \in Range(DETECTORS)
    /\ s.sampling_rate = SAMPLE_RATE
    /\ s.format = "hdf5"
    /\ s.duration = DURATION

\* urls[detector] = s["url"] for each matching s in order: the last one wins
RECURSIVE FilterUrls(_)
FilterUrls(strain_entries) ==
    IF strain_entries = <<>> THEN EmptyMap
    ELSE LET s == strain_entries[Len(strain_entries)]
             before == FilterUrls(SubSeq(strain_entries, 1, Len(strain_entries) - 1))
         IN  IF Matches(s) THEN (s.detector :> s.url) @@ before ELSE before

Found(found, gps, requested) ==
    [status |-> "return", urls |-> found, gps |-> gps, requested |-> requested]
NotFound(requested) ==
    [status |-> "return", urls |-> EmptyMap, gps |-> 0, requested |-> requested]
Raised(requested) ==
    [status |-> "raise", urls |-> EmptyMap, gps |-> 0, requested |-> requested]

\* for event in event_versions: ... from candidate i on, requested being the
\* candidates whose detail was requested so far
RECURSIVE Locate(_, _, _, _)
Locate(versions, resp, i, requested) ==
    IF i > Len(versions) THEN NotFound(requested)
    ELSE IF versions[i].jsonurl = "" THEN Locate(versions, resp, i + 1, requested)
    ELSE LET asked == Append(requested, i)
             strain_entries == StrainEntries(resp[i].events)
             found == FilterUrls(strain_entries)
         IN  IF resp[i].kind = "URLError" THEN Locate(versions, resp, i + 1, asked)
             ELSE IF resp[i].kind = "malformed" THEN Raised(asked)
             ELSE IF strain_entries = <<>> THEN Locate(versions, resp, i + 1, asked)
             ELSE IF DOMAIN found # {} THEN Found(found, versions[i].GPS, asked)
             ELSE Locate(versions, resp, i + 1, asked)

get_strain_urls(versions, resp) == Locate(versions, resp, 1, <<>>)

(***************************************************************************)
(* Inputs of the checks of the two pure functions.                         *)
(***************************************************************************)
Labels == DOMAIN CATALOG_PRIORITY \cup {"", "GWTC-4"}
Entry(n, label, gps, jsonurl) ==
    [commonName |-> n, catalog |-> label, GPS |-> gps, jsonurl |-> jsonurl]
\* The entries of an index are told apart by their GPS, set to the position.
SortShapes ==
    {<<n, l>> : n \in {"E1", "E2"}, l \in Labels} \cup {<<"", "GWTC-2">>}
SortInputs ==
    {[i \in DOMAIN sh |-> Entry(sh[i][1], sh[i][2], i, "u")] :
        sh \in SeqsUpTo(SortShapes, MaxSortLen)}

StrainEntry(d, rate, fmt, dur) ==
    [detector |-> d, sampling_rate |-> rate, format |-> fmt, duration |-> dur, url |-> 0]
EntryKinds ==
    {StrainEntry(d, SAMPLE_RATE, "hdf5", DURATION) : d \in {"H1", "L1", "V1", "K1"}}
    \cup {StrainEntry("H1", 16384, "hdf5", DURATION),
          StrainEntry("H1", SAMPLE_RATE, "gwf", DURATION),
          StrainEntry("H1", SAMPLE_RATE, "hdf5", 4096)}
\* The urls of a listing are told apart by their position in it.
Listings ==
    {[i \in DOMAIN l |-> [l[i] EXCEPT !.url = i]] : l \in SeqsUpTo(EntryKinds, 2)}
WithStrain(l) == [has_strain |-> TRUE, strain |-> l]
NoStrain == [has_strain |-> FALSE, strain |-> <<>>]
Details ==
    {<<>>} \cup {<<WithStrain(l)>> : l \in Listings}
    \cup {<<NoStrain, WithStrain(l)>> : l \in {x \in Listings : Len(x) = 1}}
Responses ==
    {[kind |-> "URLError", events |-> <<>>], [kind |-> "malformed", events |-> <<>>]}
    \cup {[kind |-> "json", events |-> d] : d \in Details}
\* A candidate without jsonurl is never requested: its response is immaterial.
CandidateInputs ==
    {<<"", [kind |-> "URLError", events |-> <<>>]>>} \cup {<<"u", r>> : r \in Responses}
LocateInputs == SeqsUpTo(CandidateInputs, MaxCandidates)

NoLocate == NotFound(<<>>)

(***************************************************************************)
(* The output directory and the manifest.                                  *)
(***************************************************************************)
Names == {"E1", "E2"}
\* The stems of the .bin files a directory may hold, in the order of
\* sorted(event_dir.glob("*.bin")); K1 is no supported detector.
Stems == <<"H1", "K1", "L1", "V1">>
SortedNames(S) == SelectSeq(<<"E1", "E2">>, LAMBDA n : n \in S)
SortedStems(S) == SelectSeq(Stems, LAMBDA d : d \in S)

\* The locals of main and process_event when the script is not running.
NoRunNow ==
    /\ manifest = EmptyMap
    /\ queue = <<>>
    /\ success = 0
    /\ name = ""
    /\ urls = EmptyMap
    /\ gps_start = 0
    /\ todo = <<>>
    /\ detectors_saved = <<>>
    /\ tmp_path = FALSE
    /\ ret = ""
    /\ requests = 0
    /\ attempts = <<>>
    /\ path = ""
    /\ calls = <<>>
    /\ writes = 0
    /\ assigned = {}
    /\ outcome = ""

\* No file is handed to extract_strain.
NoFile == [has_npoints |-> FALSE, npoints |-> 0, has_duration |-> FALSE,
           duration |-> 0, gps |-> 0, samples |-> 0]
NotExtracted == [samples |-> 0, sr |-> 0, gps_start |-> 0]

\* The state of a checkout that never ran the script.
Fresh ==
    /\ hdf5 = NoFile
    /\ extracted = NotExtracted
    /\ runs = 0
    /\ disk = [n \in Names |-> EmptyMap]
    /\ manifest_file = EmptyMap
    /\ manifest_cut = FALSE
    /\ leaked = FALSE
    /\ last = [n \in Names |-> "none"]
    /\ NoRunNow

(***************************************************************************)
(* Specification of the catalog client: get_all_events on a fetched index. *)
(***************************************************************************)
SortInit ==
    /\ pc = "index_fetched"
    /\ data \in SortInputs
    /\ events = EmptyMap
    /\ event_versions = <<>>
    /\ responses = <<>>
    /\ located = NoLocate
    /\ Fresh

GetAllEventsCall ==
    /\ pc = "index_fetched"
    /\ events' = get_all_events(data)
    /\ pc' = "grouped"
    /\ UNCHANGED <<data, hdf5, extracted, history, outcome, event_versions, responses, located, script, world>>

SpecSort == SortInit /\ [][GetAllEventsCall]_vars

(***************************************************************************)
(* Specification of the source locator: get_strain_urls on a candidate     *)
(* list and the server's answers.                                          *)
(***************************************************************************)
LocateInit ==
    /\ pc = "candidates"
    /\ data = <<>>
    /\ events = EmptyMap
    /\ \E inp \in LocateInputs :
        /\ event_versions = [i \in DOMAIN inp |-> Entry("E1", "GWTC-2", i, inp[i][1])]
        /\ responses = [i \in DOMAIN inp |-> inp[i][2]]
    /\ located = NoLocate
    /\ Fresh

GetStrainUrlsCall ==
    /\ pc = "candidates"
    /\ located' = get_strain_urls(event_versions, responses)
    /\ pc' = "located"
    /\ UNCHANGED <<data, hdf5, extracted, history, outcome, events, event_versions, responses, script, world>>

SpecLocate == LocateInit /\ [][GetStrainUrlsCall]_vars

(***************************************************************************)
(* Specification of the decoder: extract_strain on an opened file.  A file *)
(* is [has_npoints, npoints, has_duration, duration, gps, samples]: the    *)
(* Npoints attribute of strain/Strain and the Duration attribute of meta,  *)
(* each present or not, meta/GPSstart and the number of samples.  The      *)
(* durations are whole seconds.                                            *)
(***************************************************************************)
\* int(npoints / dur) for dur > 0: the quotient, cut toward zero
IntQuotient(npoints, dur) ==
    IF npoints >= 0 THEN npoints \div dur ELSE -((-npoints) \div dur)

\* A decoder that always gives the nominal rate.
NominalRate(f) == SAMPLE_RATE
\* lines 167-175: sr = SAMPLE_RATE, replaced when both attributes are there
\* and dur > 0
EffectiveRate(f) ==
    IF f.has_npoints /\ f.has_duration
    THEN IF f.duration > 0 THEN IntQuotient(f.npoints, f.duration) ELSE SAMPLE_RATE
    ELSE SAMPLE_RATE

extract_strain(f) ==
    [samples |-> f.samples, sr |-> EffectiveRate(f), gps_start |-> f.gps]

NpointsValues == {0, 1, 7, 131072, 131073}
DurationValues == {-1, 0, 1, 2, 32}
ExtractInputs ==
    {[has_npoints |-> hn, npoints |-> np, has_duration |-> hd, duration |-> du,
      gps |-> 1, samples |-> 1] :
        hn \in BOOLEAN, np \in NpointsValues, hd \in BOOLEAN, du \in DurationValues}

ExtractInit ==
    /\ pc = "file_open"
    /\ data = <<>>
    /\ events = EmptyMap
    /\ event_versions = <<>>
    /\ responses = <<>>
    /\ located = NoLocate
    /\ hdf5 \in ExtractInputs
    /\ extracted = NotExtracted
    /\ runs = 0
    /\ disk = [n \in Names |-> EmptyMap]
    /\ manifest_file = EmptyMap
    /\ manifest_cut = FALSE
    /\ leaked = FALSE
    /\ last = [n \in Names |-> "none"]
    /\ NoRunNow

ExtractStrainCall ==
    /\ pc = "file_open"
    /\ extracted' = extract_strain(hdf5)
    /\ pc' = "extracted"
    /\ UNCHANGED <<data, hdf5, history, outcome, events, event_versions, responses,
                   located, script, world>>

SpecExtract == ExtractInit /\ [][ExtractStrainCall]_vars

(***************************************************************************)
(* The script: main, process_event and the acquisition of one detector.    *)
(* A run is cut into steps at the points where it waits for the network or *)
(* the file system; an abort (the user stops the process) may fall between *)
(* any two steps.                                                          *)
(***************************************************************************)
MainLabels == {"GWTC-2", "GWTC-4"}
\* The indexes that hold appearances of the events of S only.
Catalogs(S) ==
    {[i \in DOMAIN sh |-> Entry(sh[i][1], sh[i][2], i, "u")] :
        sh \in SeqsUpTo(S \X MainLabels, MaxCandidates)}
\* The listings the server gives in the runs of the script: sources that
\* pass the filter, for H1 alone or for L1 and H1.
MainListings ==
    {l \in Listings :
        /\ \A i \in DOMAIN l : Matches(l[i])
        /\ [i \in DOMAIN l |-> l[i].detector] \in {<<"H1">>, <<"L1", "H1">>}}
MainResponses ==
    {[kind |-> "URLError", events |-> <<>>], [kind |-> "malformed", events |-> <<>>],
     [kind |-> "json", events |-> <<>>]}
    \cup {[kind |-> "json", events |-> <<WithStrain(l)>>] : l \in MainListings}
\* What a downloaded file holds: its meta/GPSstart and its number of samples.
FileGps == {1, 2}
SampleCounts == {0, 1}
\* The bytes a save_bin that fails while writing leaves in the artifact of
\* a file of one sample: none after the open, or a part of the sample.
Truncated == {0, 3}
\* What the directory of an event may hold before the first run.
InitialDirs == {EmptyMap, "K1" :> 4}

ManifestEntry(detectors, gps) ==
    [detectors |-> detectors, sampleRate |-> SAMPLE_RATE,
     gpsStart |-> gps, duration |-> DURATION]
Put(dict, key, value) == (key :> value) @@ dict

\* An idempotency check that takes every .bin file for a saved detector.
AnySize(size) == TRUE
\* size > 0 and size % 4 == 0
ValidSize(size) == size > 0 /\ size % 4 = 0
\* An idempotency check that counts the artifacts of supported detectors only.
SupportedExisting(dir) ==
    SelectSeq(Stems, LAMBDA d : d \in DOMAIN dir /\ d \in Range(DETECTORS)
                                /\ ValidSize(dir[d]))
\* the detectors list built over sorted(event_dir.glob("*.bin"))
ExistingDetectors(dir) ==
    SelectSeq(Stems, LAMBDA d : d \in DOMAIN dir /\ ValidSize(dir[d]))

Attempt(detector, result, gps) == [detector |-> detector, result |-> result, gps |-> gps]

Init ==
    /\ pc = "idle"
    /\ data \in Catalogs({"E1"})
    /\ events = EmptyMap
    /\ event_versions = <<>>
    /\ responses = <<>>
    /\ located = NoLocate
    /\ runs = 0
    /\ disk \in [Names -> InitialDirs]
    /\ manifest_file = EmptyMap
    /\ manifest_cut = FALSE
    /\ leaked = FALSE
    /\ last = [n \in Names |-> "none"]
    /\ hdf5 = NoFile
    /\ extracted = NotExtracted
    /\ NoRunNow

\* The locals of process_event and main when no call is under way.
NoCall ==
    /\ name' = ""
    /\ urls' = EmptyMap
    /\ gps_start' = 0
    /\ todo' = <<>>
    /\ detectors_saved' = <<>>
    /\ ret' = ""
    /\ requests' = 0
    /\ attempts' = <<>>
    /\ path' = ""
    /\ event_versions' = <<>>
    /\ responses' = <<>>
    /\ located' = NoLocate

NoRun ==
    /\ events' = EmptyMap
    /\ manifest' = EmptyMap
    /\ queue' = <<>>
    /\ success' = 0
    /\ calls' = <<>>
    /\ writes' = 0
    /\ assigned' = {}
    /\ NoCall

\* A script that opens the manifest for writing before it leaves.
ManifestTruncatedAtExit(file) == EmptyMap
\* lines 259-270: main is left (the exception of get_all_events, return,
\* sys.exit(1)) before line 272: the output directory and the manifest file
\* are not touched.
ManifestAtEarlyExit(file) == file

\* A run that starts from an empty manifest whatever the file holds.
StartEmpty(file) == EmptyMap
\* lines 276-279: manifest = json.load(f) when the file exists, {} otherwise
LoadManifest(file) == file

\* main, lines 259 and 49-53: the index cannot be fetched, get_all_events raises.
MainCatalogUnavailable ==
    /\ pc = "idle" /\ runs < MaxRuns
    /\ outcome' = "catalog_unavailable"
    /\ runs' = runs + 1
    /\ manifest_file' = ManifestAtEarlyExit(manifest_file)
    /\ UNCHANGED <<pc, data, hdf5, extracted, history, events, event_versions,
                   responses, located, manifest, queue, success, name, urls,
                   gps_start, todo, detectors_saved, tmp_path, ret, requests,
                   attempts, path, disk, manifest_cut, leaked, last>>

\* main --list, lines 261-264.
MainListOnly ==
    /\ pc = "idle" /\ runs < MaxRuns
    /\ outcome' = "listed"
    /\ runs' = runs + 1
    /\ manifest_file' = ManifestAtEarlyExit(manifest_file)
    /\ UNCHANGED <<pc, data, hdf5, extracted, history, events, event_versions,
                   responses, located, manifest, queue, success, name, urls,
                   gps_start, todo, detectors_saved, tmp_path, ret, requests,
                   attempts, path, disk, manifest_cut, leaked, last>>

\* sys.argv[1] in single-event mode: a name that may be in the index, or
\* one that is in none.
Arguments == Names \cup {"E9"}
\* main with a single event that is not in the catalog, lines 266-269.
MainEventNotFound ==
    /\ pc = "idle" /\ runs < MaxRuns
    /\ \E single_event \in Arguments : single_event \notin DOMAIN get_all_events(data)
    /\ outcome' = "event_not_found"
    /\ runs' = runs + 1
    /\ manifest_file' = ManifestAtEarlyExit(manifest_file)
    /\ UNCHANGED <<pc, data, hdf5, extracted, history, events, event_versions,
                   responses, located, manifest, queue, success, name, urls,
                   gps_start, todo, detectors_saved, tmp_path, ret, requests,
                   attempts, path, disk, manifest_cut, leaked, last>>

\* main, lines 259-279, without --list and with no unknown event named:
\* manifest.json exists and holds no JSON, json.load raises and main ends.
MainManifestUnreadable ==
    /\ pc = "idle" /\ runs < MaxRuns
    /\ manifest_cut
    /\ outcome' = "manifest_unreadable"
    /\ runs' = runs + 1
    /\ UNCHANGED <<pc, data, hdf5, extracted, history, events, event_versions,
                   responses, located, manifest, queue, success, name, urls,
                   gps_start, todo, detectors_saved, tmp_path, ret, requests,
                   attempts, path, world>>

\* main, line 259: the user stops the process while the index is fetched.
MainStopped ==
    /\ pc = "idle" /\ runs < MaxRuns
    /\ outcome' = "aborted"
    /\ runs' = runs + 1
    /\ UNCHANGED <<pc, data, hdf5, extracted, history, events, event_versions,
                   responses, located, manifest, queue, success, name, urls,
                   gps_start, todo, detectors_saved, tmp_path, ret, requests,
                   attempts, path, world>>

\* main up to the loop, lines 259-282, for all events.
MainAll ==
    /\ pc = "idle" /\ runs < MaxRuns
    /\ ~manifest_cut
    /\ runs' = runs + 1
    /\ events' = get_all_events(data)
    /\ manifest' = LoadManifest(manifest_file)
    /\ queue' = SortedNames(DOMAIN events')
    /\ success' = 0
    /\ outcome' = ""
    /\ pc' = "loop"
    /\ NoCall
    /\ UNCHANGED <<data, hdf5, extracted, history, tmp_path, world>>

\* main up to the loop, lines 259-282, for one named event.
MainSingle ==
    /\ pc = "idle" /\ runs < MaxRuns
    /\ ~manifest_cut
    /\ \E single_event \in DOMAIN get_all_events(data) :
        /\ events' = [n \in {single_event} |-> get_all_events(data)[n]]
        /\ queue' = <<single_event>>
    /\ runs' = runs + 1
    /\ manifest' = LoadManifest(manifest_file)
    /\ success' = 0
    /\ outcome' = ""
    /\ pc' = "loop"
    /\ NoCall
    /\ UNCHANGED <<data, hdf5, extracted, history, tmp_path, world>>

\* process_event, lines 188-208: valid artifacts exist, the event is skipped.
SkipValid ==
    /\ pc = "loop" /\ queue # <<>>
    /\ LET n == Head(queue)
           detectors == ExistingDetectors(disk[n])
           gps == IF events[n] # <<>> THEN events[n][1].GPS ELSE 0
       IN  /\ detectors # <<>>
           /\ name' = n
           /\ manifest' = Put(manifest, n, ManifestEntry(detectors, gps))
           /\ calls' = Append(calls, n)
           /\ assigned' = assigned \cup {n}
    /\ ret' = "True"
    /\ path' = "skip"
    /\ requests' = 0
    /\ attempts' = <<>>
    /\ located' = NoLocate
    /\ pc' = "returned"
    /\ UNCHANGED <<data, hdf5, extracted, writes, outcome, events, event_versions,
                   responses, runs, queue, success, urls, gps_start, todo,
                   detectors_saved, tmp_path, world>>

\* process_event, lines 188-199: no valid artifact, on to get_strain_urls.
NothingValid ==
    /\ pc = "loop" /\ queue # <<>>
    /\ ExistingDetectors(disk[Head(queue)]) = <<>>
    /\ name' = Head(queue)
    /\ calls' = Append(calls, Head(queue))
    /\ requests' = 0
    /\ attempts' = <<>>
    /\ located' = NoLocate
    /\ pc' = "locate"
    /\ UNCHANGED <<data, hdf5, extracted, writes, assigned, outcome, events,
                   event_versions, responses, runs, manifest, queue, success, urls,
                   gps_start, todo, detectors_saved, tmp_path, ret, path, world>>

ResponsesFor(versions) == [DOMAIN versions -> MainResponses]

\* process_event, line 211: get_strain_urls raises, and so does process_event.
LocateRaises ==
    /\ pc = "locate"
    /\ \E resp \in ResponsesFor(events[name]) :
        LET r == get_strain_urls(events[name], resp)
        IN  /\ r.status = "raise"
            /\ event_versions' = events[name]
            /\ responses' = resp
            /\ located' = r
            /\ requests' = requests + Len(r.requested)
    /\ ret' = "raise"
    /\ path' = "raise"
    /\ pc' = "returned"
    /\ UNCHANGED <<data, hdf5, extracted, history, outcome, events, runs, manifest,
                   queue, success, name, urls, gps_start, todo, detectors_saved,
                   tmp_path, attempts, world>>

\* process_event, lines 211-214: no sources.
NoSources ==
    /\ pc = "locate"
    /\ \E resp \in ResponsesFor(events[name]) :
        LET r == get_strain_urls(events[name], resp)
        IN  /\ r.status = "return" /\ DOMAIN r.urls = {}
            /\ event_versions' = events[name]
            /\ responses' = resp
            /\ located' = r
            /\ requests' = requests + Len(r.requested)
    /\ ret' = "False"
    /\ path' = "no_sources"
    /\ pc' = "returned"
    /\ UNCHANGED <<data, hdf5, extracted, history, outcome, events, runs, manifest,
                   queue, success, name, urls, gps_start, todo, detectors_saved,
                   tmp_path, attempts, world>>

\* process_event, lines 211-218: sources located, the fetch pass begins.
SourcesLocated ==
    /\ pc = "locate"
    /\ \E resp \in ResponsesFor(events[name]) :
        LET r == get_strain_urls(events[name], resp)
        IN  /\ r.status = "return" /\ DOMAIN r.urls # {}
            /\ event_versions' = events[name]
            /\ responses' = resp
            /\ located' = r
            /\ requests' = requests + Len(r.requested)
            /\ urls' = r.urls
            /\ gps_start' = r.gps
            /\ todo' = SortedStems(DOMAIN r.urls)
    /\ detectors_saved' = <<>>
    /\ pc' = "fetch"
    /\ UNCHANGED <<data, hdf5, extracted, history, outcome, events, runs, manifest,
                   queue, success, name, tmp_path, ret, attempts, path, world>>

\* A pass that ends at the first detector that fails.
GiveUpAfterFailure(detectors) == <<>>
\* lines 218 and 234-235: the exception is caught inside the loop, which goes
\* on with the detectors after the one that failed.
AfterFailure(detectors) == Tail(detectors)

\* A pass that keeps the GPS get_strain_urls returned.
KeepLocatedGps(current, gps) == current
\* lines 224-225: strain, sr, gps = extract_strain(tmp_path); gps_start = gps
GpsAfterExtract(current, gps) == gps

\* download_hdf5, lines 147-154: the except branch unlinks tmp_path.
ScratchAfterFailedDownload == FALSE

\* lines 219-221 and 234-235: download_hdf5 raises; the scratch file made by
\* mkstemp is removed and the detector is given up.
DownloadFails ==
    /\ pc = "fetch" /\ todo # <<>>
    /\ tmp_path' = ScratchAfterFailedDownload
    /\ requests' = requests + 1
    /\ attempts' = Append(attempts, Attempt(Head(todo), "download_failed", 0))
    /\ todo' = AfterFailure(todo)
    /\ UNCHANGED <<pc, data, hdf5, extracted, history, outcome, events, event_versions, responses, located, runs,
                   manifest, queue, success, name, urls, gps_start, detectors_saved,
                   ret, path, world>>

\* lines 219-221: download_hdf5 returns the path of the scratch file.
Downloaded ==
    /\ pc = "fetch" /\ todo # <<>>
    /\ tmp_path' = TRUE
    /\ requests' = requests + 1
    /\ pc' = "downloaded"
    /\ UNCHANGED <<data, hdf5, extracted, history, outcome, events, event_versions, responses, located, runs, manifest,
                   queue, success, name, urls, gps_start, todo, detectors_saved, ret,
                   attempts, path, world>>

\* An acquisition that unlinks the scratch file only after a successful save.
ScratchKeptOnError(result) == result # "saved"
\* lines 223-232: finally: os.unlink(tmp_path), whatever the result.
ScratchAfterFinally(result) == FALSE

\* lines 223-235: extract_strain raises (DecodeFailed).
ExtractFails ==
    /\ pc = "downloaded"
    /\ tmp_path' = ScratchAfterFinally("decode_failed")
    /\ attempts' = Append(attempts, Attempt(Head(todo), "decode_failed", 0))
    /\ todo' = AfterFailure(todo)
    /\ pc' = "fetch"
    /\ UNCHANGED <<data, hdf5, extracted, history, outcome, events, event_versions, responses, located, runs, manifest,
                   queue, success, name, urls, gps_start, detectors_saved, ret,
                   requests, path, world>>

\* save_bin, lines 182-183, raises: in mkdir or in the open of tofile, and
\* the directory is as it was, or while tofile writes, and the artifact is
\* left truncated.
AfterFailedSave(dir, detector) ==
    {dir} \cup {Put(dir, detector, p) : p \in Truncated}

\* lines 223-235: extract_strain gives the samples, save_bin raises.
SaveFails ==
    /\ pc = "downloaded"
    /\ \E gps \in FileGps, dir \in AfterFailedSave(disk[name], Head(todo)) :
        /\ gps_start' = GpsAfterExtract(gps_start, gps)
        /\ attempts' = Append(attempts, Attempt(Head(todo), "save_failed", gps))
        /\ disk' = [disk EXCEPT ![name] = dir]
    /\ tmp_path' = ScratchAfterFinally("save_failed")
    /\ todo' = AfterFailure(todo)
    /\ pc' = "fetch"
    /\ UNCHANGED <<data, hdf5, extracted, history, outcome, events, event_versions,
                   responses, located, runs, manifest, queue, success, name, urls,
                   detectors_saved, ret, requests, path,
                   manifest_file, manifest_cut, leaked, last>>

\* lines 223-232: extract_strain and save_bin succeed: 4 bytes per sample.
Saved ==
    /\ pc = "downloaded"
    /\ \E gps \in FileGps, samples \in SampleCounts :
        /\ gps_start' = GpsAfterExtract(gps_start, gps)
        /\ attempts' = Append(attempts, Attempt(Head(todo), "saved", gps))
        /\ disk' = [disk EXCEPT ![name] = Put(disk[name], Head(todo), 4 * samples)]
    /\ detectors_saved' = Append(detectors_saved, Head(todo))
    /\ tmp_path' = ScratchAfterFinally("saved")
    /\ todo' = Tail(todo)
    /\ pc' = "fetch"
    /\ UNCHANGED <<data, hdf5, extracted, history, outcome, events, event_versions, responses, located, runs, manifest,
                   queue, success, name, urls, ret, requests, path,
                   manifest_file, manifest_cut, leaked, last>>

\* A record that adds the saved detectors to those of the entry it replaces.
MergeEntry(dict, key, entry) ==
    IF key \in DOMAIN dict
    THEN Put(dict, key,
             [entry EXCEPT !.detectors =
                 SortedStems(Range(dict[key].detectors) \cup Range(entry.detectors))])
    ELSE Put(dict, key, entry)
\* lines 238-243: manifest[name] = {...}, whatever the dict held for name
RecordEntry(dict, key, entry) == Put(dict, key, entry)

\* lines 237-244: at least one detector was saved, the event is recorded.
Record ==
    /\ pc = "fetch" /\ todo = <<>>
    /\ detectors_saved # <<>>
    /\ manifest' = RecordEntry(manifest, name,
                       ManifestEntry(SortedStems(Range(detectors_saved)), gps_start))
    /\ assigned' = assigned \cup {name}
    /\ ret' = "True"
    /\ path' = "recorded"
    /\ pc' = "returned"
    /\ UNCHANGED <<data, hdf5, extracted, calls, writes, outcome, events,
                   event_versions, responses, located, runs, queue, success, name,
                   urls, gps_start, todo, detectors_saved, tmp_path, requests,
                   attempts, world>>

\* lines 237 and 246: no detector was saved.
NoneSaved ==
    /\ pc = "fetch" /\ todo = <<>>
    /\ detectors_saved = <<>>
    /\ ret' = "False"
    /\ path' = "none_saved"
    /\ pc' = "returned"
    /\ UNCHANGED <<data, hdf5, extracted, history, outcome, events, event_versions, responses, located, runs, manifest,
                   queue, success, name, urls, gps_start, todo, detectors_saved,
                   tmp_path, requests, attempts, world>>

\* A driver that counts every call as a success.
CountedAlways(count, r) == count + 1
\* lines 286-287: if process_event(...): success += 1
Counted(count, r) == IF r = "True" THEN count + 1 ELSE count

\* A driver that lets an exception of process_event end the loop.
StopAfterRaise(q, r) == IF r = "raise" THEN <<>> ELSE Tail(q)
\* lines 283-289: the for loop goes on to the next item whatever the call
\* returned; an Exception it raised is caught at line 288.
AfterCall(q, r) == Tail(q)

\* main, lines 283-289: the call is over, on to the next event.
NextEvent ==
    /\ pc = "returned"
    /\ success' = Counted(success, ret)
    /\ last' = [last EXCEPT ![name] = path]
    /\ queue' = AfterCall(queue, ret)
    /\ pc' = "loop"
    /\ NoCall
    /\ UNCHANGED <<data, hdf5, extracted, history, outcome, events, runs, manifest,
                   tmp_path, disk, manifest_file, manifest_cut, leaked>>

\* main, line 292: open(manifest_path, "w") truncates the file.
OpenManifest ==
    /\ pc = "loop" /\ queue = <<>>
    /\ manifest_file' = EmptyMap
    /\ manifest_cut' = TRUE
    /\ pc' = "writing"
    /\ UNCHANGED <<data, hdf5, extracted, history, outcome, events, event_versions,
                   responses, located, script, disk, leaked, last>>

\* main, line 293: json.dump has written the manifest and the file is closed.
WriteManifest ==
    /\ pc = "writing"
    /\ manifest_file' = manifest
    /\ manifest_cut' = FALSE
    /\ writes' = writes + 1
    /\ pc' = "done"
    /\ UNCHANGED <<data, hdf5, extracted, calls, assigned, outcome, events,
                   event_versions, responses, located, script, disk, leaked, last>>

\* main, lines 295-302: the summary is printed and the script ends.
MainReturns ==
    /\ pc = "done"
    /\ outcome' = "done"
    /\ pc' = "idle"
    /\ NoRun
    /\ UNCHANGED <<data, hdf5, extracted, runs, tmp_path, world>>

\* Whether a stop of the process leaves the scratch file of the attempt
\* under way.  In download_hdf5 (pc = "fetch") there is none before mkstemp,
\* and after it neither the except of line 147 (KeyboardInterrupt is no
\* Exception) nor a kill removes it.  Between lines 221 and 232
\* (pc = "downloaded") the finally removes it on KeyboardInterrupt and a
\* kill leaves it.
LeftScratch ==
    IF pc = "downloaded" \/ (pc = "fetch" /\ todo # <<>>) THEN {FALSE, TRUE}
    ELSE {FALSE}

\* The output directory a stop of the process leaves.  Between lines 221
\* and 232 (pc = "downloaded") the stop may fall before save_bin, inside it,
\* and the artifact under way is cut off, or after it (lines 228-232), and
\* the artifact is whole.
LeftDisk ==
    IF pc = "downloaded"
    THEN {[disk EXCEPT ![name] = dir] :
            dir \in AfterFailedSave(disk[name], Head(todo))
                    \cup {Put(disk[name], Head(todo), 4 * samples) :
                              samples \in SampleCounts}}
    ELSE {disk}

\* Whether a stop of the process leaves manifest.json cut off: when every
\* event is through (pc = "loop", empty queue) the stop may fall after the
\* open of line 292; at pc = "writing" the file is cut off already.
LeftManifestCut ==
    IF pc = "loop" /\ queue = <<>> THEN {FALSE, TRUE} ELSE {FALSE}

\* The user stops the process in the middle of a run (Ctrl-C or kill): what
\* is in memory is lost, what is on disk stays; a stop between lines 292 and
\* 293 leaves the manifest file cut off, a stop after line 293 (pc = "done")
\* leaves the manifest written.  An event is "cut" when the stop fell in its
\* fetch pass behind an artifact that validates, "lost" otherwise.
Abort ==
    /\ pc \in {"loop", "locate", "fetch", "downloaded", "returned", "writing", "done"}
    /\ \E left \in LeftScratch : leaked' = (leaked \/ left)
    /\ disk' \in LeftDisk
    /\ \E cut \in LeftManifestCut :
        /\ manifest_cut' = (manifest_cut \/ cut)
        /\ manifest_file' = IF cut THEN EmptyMap ELSE manifest_file
    /\ tmp_path' = FALSE
    /\ last' = [n \in Names |->
                  IF \/ n \notin DOMAIN events
                     \/ (n \in Range(queue) /\ n # name)
                     \/ pc = "done"
                  THEN last[n]
                  ELSE IF /\ n = name /\ pc \in {"fetch", "downloaded"}
                          /\ \/ detectors_saved # <<>>
                             \/ /\ disk' # disk
                                /\ ValidSize(disk'[n][Head(todo)])
                       THEN "cut" ELSE "lost"]
    /\ outcome' = "aborted"
    /\ pc' = "idle"
    /\ NoRun
    /\ UNCHANGED <<data, hdf5, extracted, runs>>

Next ==
    \/ MainCatalogUnavailable \/ MainListOnly \/ MainEventNotFound
    \/ MainManifestUnreadable \/ MainStopped
    \/ MainAll \/ MainSingle
    \/ SkipValid \/ NothingValid
    \/ LocateRaises \/ NoSources \/ SourcesLocated
    \/ DownloadFails \/ Downloaded
    \/ ExtractFails \/ SaveFails \/ Saved
    \/ Record \/ NoneSaved
    \/ NextEvent \/ OpenManifest \/ WriteManifest \/ MainReturns
    \/ Abort

Spec == Init /\ [][Next]_vars

(***************************************************************************)
(* Specification of a batch: the script over a catalog that holds the two  *)
(* events, E2 discovered before E1.                                        *)
(***************************************************************************)
\* The appearances are of one catalog release: the sort has nothing to do.
BatchCatalogs ==
    {c \in Catalogs(Names) :
        /\ {e.commonName : e \in Range(c)} = Names
        /\ c[1].commonName = "E2"
        /\ \A e \in Range(c) : e.catalog = "GWTC-2"}

BatchInit ==
    /\ pc = "idle"
    /\ data \in BatchCatalogs
    /\ events = EmptyMap
    /\ event_versions = <<>>
    /\ responses = <<>>
    /\ located = NoLocate
    /\ Fresh

SpecBatch == BatchInit /\ [][Next]_vars

(***************************************************************************)
(* Properties of get_all_events (SpecSort).                                *)
(***************************************************************************)
Count(seq, e) == Cardinality({i \in DOMAIN seq : seq[i] = e})
\* The appearances of an event in the fetched index, in discovery order.
Appearances(n) == SelectSeq(data, LAMBDA e : e.commonName = n)
Discovery(e) == CHOOSE k \in DOMAIN data : data[k] = e
Ranked(e) == e.catalog \in DOMAIN CATALOG_PRIORITY
TablePriority(e) == IF Ranked(e) THEN CATALOG_PRIORITY[e.catalog] ELSE 0

\* C9: the sorted list of every event is a permutation of its appearances,
\* ordered by priority (default 0) non-increasing, and two appearances of
\* equal priority keep their discovery order.
C9_StableSort ==
    pc = "grouped" =>
        \A n \in DOMAIN events :
            LET out == events[n]
                inp == Appearances(n)
            IN  /\ Len(out) = Len(inp)
                /\ \A e \in Range(inp) \cup Range(out) : Count(out, e) = Count(inp, e)
                /\ \A i, j \in DOMAIN out :
                    i < j =>
                        /\ TablePriority(out[i]) >= TablePriority(out[j])
                        /\ TablePriority(out[i]) = TablePriority(out[j])
                               => Discovery(out[i]) < Discovery(out[j])

\* An event whose sort moved an appearance and that has two appearances of
\* equal priority under different labels.
C9_Witness ==
    /\ pc = "grouped"
    /\ \E n \in DOMAIN events :
        /\ events[n] # Appearances(n)
        /\ \E i, j \in DOMAIN events[n] :
            /\ i < j
            /\ events[n][i].catalog # events[n][j].catalog
            /\ TablePriority(events[n][i]) = TablePriority(events[n][j])

\* C10: in every sorted list an appearance with a label outside the table
\* comes after every appearance with a label of the table, and no appearance
\* with an unknown label is removed.
C10_UnknownBelowRanked ==
    pc = "grouped" =>
        \A n \in DOMAIN events :
            LET out == events[n]
            IN  /\ \A i, j \in DOMAIN out :
                    (~Ranked(out[i]) /\ Ranked(out[j])) => j < i
                /\ \A e \in Range(Appearances(n)) : ~Ranked(e) => e \in Range(out)

(***************************************************************************)
(* Properties of get_strain_urls (SpecLocate).                             *)
(***************************************************************************)
\* The filtered mapping a candidate offers; none when it has no jsonurl or
\* its detail request fails.
Offered(i) ==
    IF event_versions[i].jsonurl # "" /\ responses[i].kind = "json"
    THEN FilterUrls(StrainEntries(responses[i].events))
    ELSE EmptyMap
Usable == {i \in DOMAIN event_versions : DOMAIN Offered(i) # {}}
FirstUsable == CHOOSE i \in Usable : \A j \in Usable : i <= j

\* C4: for every candidate list the result is the filtered mapping and the
\* GPS of the first candidate whose filtered mapping is non-empty, and no
\* detail request goes to a candidate after that one.
C4_FirstMatch ==
    (pc = "located" /\ Usable # {}) =>
        /\ \A k \in Range(located.requested) : k <= FirstUsable
        /\ located.urls = Offered(FirstUsable)
        /\ located.gps = event_versions[FirstUsable].GPS

\* The first-match policy on the calls that return: the mapping and GPS are
\* those of the first usable candidate, the empty mapping and 0 when there
\* is none, and no request goes beyond the first usable candidate.
FirstMatchOnReturn ==
    pc = "located" =>
        /\ Usable # {} => \A k \in Range(located.requested) : k <= FirstUsable
        /\ located.status = "return" =>
            IF Usable = {}
            THEN DOMAIN located.urls = {} /\ located.gps = 0
            ELSE /\ located.urls = Offered(FirstUsable)
                 /\ located.gps = event_versions[FirstUsable].GPS

\* C5: a candidate whose detail request fails, by a network error or by an
\* unparseable response, is skipped: the call returns, and it returns the
\* sources of the first usable candidate also when requests before it failed.
C5_FailureContained ==
    pc = "located" =>
        /\ located.status = "return"
        /\ Usable # {} =>
            /\ located.urls = Offered(FirstUsable)
            /\ located.gps = event_versions[FirstUsable].GPS

\* The candidate get_strain_urls returned from: the last one it requested.
Chosen == located.requested[Len(located.requested)]
ChosenListing == StrainEntries(responses[Chosen].events)
\* The entries of the chosen candidate's listing that give detector d at
\* 4096 Hz, in hdf5, for 32 seconds.
Eligible(d) ==
    {k \in DOMAIN ChosenListing :
        /\ ChosenListing[k].detector = d
        /\ d \in {"H1", "L1", "V1"}
        /\ ChosenListing[k].sampling_rate = 4096
        /\ ChosenListing[k].format = "hdf5"
        /\ ChosenListing[k].duration = 32}

\* C11: when get_strain_urls returns sources, a detector is a key of the
\* returned mapping exactly when the chosen candidate's listing has an entry
\* for it that is one of H1, L1, V1 at 4096 Hz, hdf5 and 32 seconds, and the
\* url mapped to it is the url of such an entry; an entry failing one of the
\* four constraints contributes no key and no url.
C11_ExactFilter ==
    (pc = "located" /\ located.status = "return" /\ DOMAIN located.urls # {}) =>
        /\ \A d \in {ChosenListing[k].detector : k \in DOMAIN ChosenListing}
                    \cup DOMAIN located.urls :
                d \in DOMAIN located.urls <=> Eligible(d) # {}
        /\ \A d \in DOMAIN located.urls :
                \E k \in Eligible(d) : located.urls[d] = ChosenListing[k].url

\* A call that returned the source of one entry of a listing whose other
\* entry fails a single constraint: the duration, or the detector.
C11_Witness ==
    /\ pc = "located" /\ located.status = "return"
    /\ Cardinality(DOMAIN located.urls) = 1
    /\ Len(ChosenListing) = 2
    /\ \E k \in DOMAIN ChosenListing :
        /\ Eligible(ChosenListing[k].detector) = {}
        /\ \/ ChosenListing[k].duration # 32
           \/ ChosenListing[k].detector = "K1"

(***************************************************************************)
(* Properties of extract_strain (SpecExtract).                             *)
(***************************************************************************)
\* C15: the rate extract_strain returns is floor(Npoints / Duration) when the
\* file has both attributes and Duration > 0, which is 4096 for Npoints
\* 131072 and Duration 32, and the nominal 4096 when an attribute is absent
\* or Duration is 0 or negative.
C15_SampleRate ==
    pc = "extracted" =>
        /\ extracted.sr =
              IF hdf5.has_npoints /\ hdf5.has_duration /\ hdf5.duration > 0
              THEN hdf5.npoints \div hdf5.duration
              ELSE 4096
        /\ (hdf5.has_npoints /\ hdf5.has_duration /\ hdf5.npoints = 131072
                /\ hdf5.duration = 32) => extracted.sr = 4096

\* A file with Npoints 7 and Duration 2 was decoded: the rate is 3.
C15_Witness ==
    /\ pc = "extracted"
    /\ hdf5.has_npoints /\ hdf5.has_duration
    /\ hdf5.npoints = 7 /\ hdf5.duration = 2
    /\ extracted.sr = 3

(***************************************************************************)
(* Properties of process_event and main (Spec).                            *)
(***************************************************************************)
\* The artifacts of an event that validate: positive size, multiple of 4.
Validates(n, d) == d \in DOMAIN disk[n] /\ disk[n][d] > 0 /\ disk[n][d] % 4 = 0
ValidArtifacts(n) == {d \in DOMAIN disk[n] : Validates(n, d)}
Listed(entry) == Range(entry.detectors)
Attempted == [i \in DOMAIN attempts |-> attempts[i].detector]
SavedNow == {attempts[i].detector : i \in {j \in DOMAIN attempts : attempts[j].result = "saved"}}
Decoded == {i \in DOMAIN attempts : attempts[i].result \in {"saved", "save_failed"}}
LastDecoded == CHOOSE i \in Decoded : \A j \in Decoded : j <= i
FetchPassOver == pc = "returned" /\ path \in {"recorded", "none_saved"}

\* C1: when the last call for an event recorded it after a fetch pass whose
\* saved artifacts all validate, the next call for it, with the same catalog
\* appearances, issues no network request and leaves manifest[event] equal
\* in every field to the entry the first run wrote.
C1_Idempotent ==
    (/\ pc = "returned"
     /\ last[name] = "recorded"
     /\ name \in DOMAIN manifest_file
     /\ \A d \in Listed(manifest_file[name]) : Validates(name, d))
    => /\ requests = 0
       /\ manifest[name] = manifest_file[name]

\* C2: when the manifest has been written at the end of a run, every
\* detector listed in any entry has an artifact that exists, has positive
\* size and a size that is a multiple of 4.
C2_ManifestValid ==
    pc = "done" =>
        \A n \in DOMAIN manifest_file :
            \A d \in Listed(manifest_file[n]) : Validates(n, d)

\* C3 as stated: the gpsStart recorded after a fetch pass is the GPS of the
\* catalog appearance get_strain_urls took the sources from.
C3_CatalogGps ==
    (pc = "returned" /\ path = "recorded") => manifest[name].gpsStart = located.gps

\* C3 amended: the gpsStart recorded after a fetch pass is the GPSstart read
\* from the file of the last detector, in sorted order, that extract_strain
\* decoded in this pass, whether or not its save succeeded.
C3_LastDecodedGps ==
    (pc = "returned" /\ path = "recorded") =>
        /\ Decoded # {}
        /\ manifest[name].gpsStart = attempts[LastDecoded].gps

\* An event recorded with a GPS that is neither the catalog's nor that of
\* the first decoded file.
C3_Witness ==
    /\ pc = "returned" /\ path = "recorded"
    /\ Cardinality(Decoded) = 2
    /\ attempts[1].gps # attempts[2].gps
    /\ manifest[name].gpsStart # located.gps

\* C6: after every per-detector attempt, however it ended, the scratch file
\* made for it is gone: one exists only between the return of download_hdf5
\* and the end of that attempt.
C6_ScratchRemoved ==
    pc \in {"loop", "locate", "fetch", "returned", "writing", "done"} => ~tmp_path

\* Two attempts over: a decode failure and a save failure.
C6_Witness ==
    /\ pc = "fetch"
    /\ Len(attempts) = 2
    /\ attempts[1].result = "decode_failed"
    /\ attempts[2].result = "save_failed"
    /\ ~tmp_path

\* C7: in a fetch pass the detectors attempted so far and those still to do
\* are together the located detectors in sorted order, whatever the outcomes
\* were; when the pass is over every located detector was attempted once, and
\* process_event returns True and records the event exactly when at least one
\* detector was saved in this pass.
C7_PerDetectorIsolation ==
    /\ pc \in {"fetch", "downloaded"} => Attempted \o todo = SortedStems(DOMAIN urls)
    /\ FetchPassOver =>
        /\ Attempted = SortedStems(DOMAIN urls)
        /\ ret = "True" <=> SavedNow # {}
        /\ ret = "True" <=> path = "recorded"
        /\ ret = "True" => Listed(manifest[name]) = SavedNow
        /\ ret # "True" =>
            /\ ret = "False"
            /\ name \in DOMAIN manifest <=> name \in DOMAIN manifest_file
            /\ name \in DOMAIN manifest => manifest[name] = manifest_file[name]

\* The first detector failed and the second was saved and recorded.
C7_Witness ==
    /\ FetchPassOver
    /\ Len(attempts) = 2
    /\ attempts[1].result \in {"download_failed", "decode_failed", "save_failed"}
    /\ attempts[2].result = "saved"
    /\ ret = "True"

\* C8 as stated: an event whose fetch pass was cut by an abort after some
\* artifact was written is redone by the next call for it: its sources are
\* located again and its detectors fetched again.
C8_RedoneAfterAbort ==
    (pc = "returned" /\ last[name] = "cut") =>
        /\ path # "skip"
        /\ located.requested # <<>>

\* C8 amended: the next call for an event whose fetch pass was cut by an
\* abort decides by the sizes of the artifacts on disk: with a valid artifact
\* it skips the event and records exactly the valid artifacts, without any
\* request; with none it goes on to get_strain_urls.
C8_RecoveryBySize ==
    [][(pc = "loop" /\ queue # <<>> /\ last[Head(queue)] = "cut" /\ pc' # "idle") =>
        IF ValidArtifacts(Head(queue)) # {}
        THEN /\ pc' = "returned" /\ path' = "skip" /\ requests' = 0
             /\ Listed(manifest'[Head(queue)]) = ValidArtifacts(Head(queue))
             /\ disk' = disk
        ELSE pc' = "locate"]_vars

\* After an abort that cut the pass of L1 and H1 behind H1, the next call
\* skipped the event with H1 alone.
C8_Witness ==
    /\ pc = "returned" /\ last[name] = "cut" /\ path = "skip"
    /\ manifest[name].detectors = <<"H1">>
    /\ "L1" \notin ValidArtifacts(name)

\* C12: a call of process_event that starts with at least one valid artifact
\* in the event directory returns True on the skip path: it issues no request,
\* locates and attempts nothing, leaves every file of the directory as it is
\* (invalid and empty ones too) and lists exactly the detectors whose
\* artifacts are valid, so that a missing detector is never fetched.
C12_SkipValidShortCircuit ==
    [][(pc = "loop" /\ queue # <<>> /\ ValidArtifacts(Head(queue)) # {}
            /\ pc' # "idle") =>
        /\ pc' = "returned" /\ ret' = "True" /\ path' = "skip"
        /\ name' = Head(queue)
        /\ requests' = 0 /\ attempts' = <<>> /\ located' = NoLocate
        /\ disk' = disk
        /\ Listed(manifest'[Head(queue)]) = ValidArtifacts(Head(queue))]_vars

\* A second run skipped an event recorded with H1 alone whose L1 artifact
\* is truncated: the truncated file is still there and L1 is not listed.
C12_Witness ==
    /\ pc = "returned" /\ path = "skip" /\ last[name] = "recorded"
    /\ manifest[name].detectors = <<"H1">>
    /\ "L1" \in DOMAIN disk[name] /\ ~Validates(name, "L1")

\* C13: when no candidate of the event yields a matching source,
\* get_strain_urls returns the empty mapping and GPS 0 without raising, and
\* process_event returns False with no download attempted, no file of the
\* output directory changed and the manifest as it was before the call.
C13_NoSourcesNormal ==
    [][(pc = "locate" /\ pc' # "idle" /\ Usable' = {}) =>
        /\ located'.status = "return"
        /\ DOMAIN located'.urls = {} /\ located'.gps = 0
        /\ pc' = "returned" /\ ret' = "False"
        /\ attempts' = <<>> /\ requests' = Len(located'.requested)
        /\ disk' = disk
        /\ manifest' = manifest]_vars

\* The same on the calls in which get_strain_urls returns: with no usable
\* candidate it gives the empty mapping and 0, and process_event returns
\* False and changes neither the directory nor the manifest.
NoSourcesOnReturn ==
    [][(pc = "locate" /\ pc' # "idle" /\ Usable' = {}
            /\ located'.status = "return") =>
        /\ DOMAIN located'.urls = {} /\ located'.gps = 0
        /\ pc' = "returned" /\ ret' = "False" /\ path' = "no_sources"
        /\ attempts' = <<>> /\ requests' = Len(located'.requested)
        /\ disk' = disk
        /\ manifest' = manifest]_vars

\* C16: a run that ends because the index cannot be fetched, because the
\* single event named is not in the index, or after listing the names,
\* requests no detail, downloads nothing, calls process_event for no event
\* and leaves every artifact and the manifest file as they were.
C16_NonAcquiringPaths ==
    [][(pc = "idle"
            /\ outcome' \in {"catalog_unavailable", "event_not_found", "listed"}) =>
        /\ pc' = "idle"
        /\ requests' = 0 /\ attempts' = <<>> /\ located' = NoLocate
        /\ calls' = <<>> /\ writes' = 0
        /\ disk' = disk
        /\ manifest_file' = manifest_file
        /\ leaked' = leaked]_vars

\* A run for an unknown event that followed a run which recorded E1: the
\* artifact and the manifest entry of E1 are still there.
C16_Witness ==
    /\ pc = "idle" /\ runs = 2
    /\ outcome = "event_not_found"
    /\ "E1" \in DOMAIN manifest_file
    /\ ValidArtifacts("E1") # {}

\* The ascending duplicate-free lists of supported detectors.
AscendingLists ==
    {<<"H1">>, <<"L1">>, <<"V1">>, <<"H1", "L1">>, <<"H1", "V1">>, <<"L1", "V1">>,
     <<"H1", "L1", "V1">>}

\* C17: when a fetch pass saved a non-empty set of detectors, manifest[event]
\* is an entry of exactly the four fields, whose detectors are the detectors
\* saved in this pass in ascending order, each once, with sampleRate 4096 and
\* duration 32; a detector of the entry it replaces that was not saved in
\* this pass is not in it.
C17_RecordContent ==
    (pc = "returned" /\ path = "recorded") =>
        /\ SavedNow # {}
        /\ DOMAIN manifest[name] = {"detectors", "sampleRate", "gpsStart", "duration"}
        /\ manifest[name].detectors \in AscendingLists
        /\ Range(manifest[name].detectors) = SavedNow
        /\ manifest[name].sampleRate = 4096
        /\ manifest[name].duration = 32

\* The entry loaded for the event listed L1; this pass saved H1 alone and
\* the new entry lists H1 alone.
C17_Witness ==
    /\ pc = "returned" /\ path = "recorded"
    /\ name \in DOMAIN manifest_file
    /\ "L1" \in Listed(manifest_file[name])
    /\ manifest[name].detectors = <<"H1">>

\* C19: every detector code in an entry process_event wrote into the
\* manifest, on the skip path or after a fetch pass, is one of H1, L1, V1.
C19_SupportedDetectors ==
    (pc = "returned" /\ ret = "True") =>
        Listed(manifest[name]) \subseteq {"H1", "L1", "V1"}

\* The same for the entries written after a fetch pass alone.
SupportedOnFetchPath ==
    (pc = "returned" /\ path = "recorded") =>
        Listed(manifest[name]) \subseteq {"H1", "L1", "V1"}

(***************************************************************************)
(* Properties of a batch (SpecBatch).                                      *)
(***************************************************************************)
\* C14: in a run of main the events passed to process_event so far are the
\* first events of the run in ascending name order, each once, whatever the
\* earlier calls returned or raised; the manifest file is not written while
\* an event is left, and when main is through every event of the run was
\* passed once and the file was written once.
C14_BatchOrder ==
    /\ calls \in {<<>>, <<"E1">>, <<"E2">>, <<"E1", "E2">>}
    /\ Range(calls) \subseteq DOMAIN events
    /\ (pc \in {"loop", "locate", "fetch", "downloaded", "returned"}) =>
        /\ writes = 0
        /\ Range(calls) \cup Range(queue) = DOMAIN events
    /\ (pc = "loop" /\ queue = <<>>) => Range(calls) = DOMAIN events
    /\ pc = "writing" => writes = 0 /\ Range(calls) = DOMAIN events
    /\ pc = "done" =>
        /\ writes = 1
        /\ Range(calls) = DOMAIN events
        /\ Len(calls) = Cardinality(DOMAIN events)

\* A run over an index that lists E2 before E1: the call for E1 raised, E2
\* was processed after it and the manifest was written.
C14_Witness ==
    /\ pc = "done" /\ writes = 1
    /\ data[1].commonName = "E2"
    /\ calls = <<"E1", "E2">>
    /\ last["E1"] = "raise"
    /\ last["E2"] = "recorded"

\* C18: when a run comes to write the manifest file, every event that has
\* an entry in the file, which is the manifest the run loaded, has one in the
\* manifest to be written, and the entry is the same for every event the run
\* did not process and for every event whose call returned False or raised;
\* the write puts exactly that manifest into the file.
C18_EntriesKept ==
    [][/\ (pc = "loop" /\ pc' = "writing") =>
            /\ manifest' = manifest
            /\ \A n \in DOMAIN manifest_file :
                /\ n \in DOMAIN manifest
                /\ (n \notin Range(calls)
                        \/ last[n] \in {"no_sources", "none_saved", "raise"})
                    => manifest[n] = manifest_file[n]
       /\ (pc = "writing" /\ pc' = "done") =>
            manifest_file' = manifest /\ ~manifest_cut']_vars

\* A second run, for E1 alone, whose call raised or found no sources: the
\* file written holds the entries of E1 and of E2, which was not processed.
C18_Witness ==
    /\ pc = "done" /\ runs = 2
    /\ calls = <<"E1">>
    /\ last["E1"] \in {"no_sources", "raise"}
    /\ DOMAIN manifest_file = {"E1", "E2"}

\* C20: a call of process_event returns True exactly when it assigned
\* manifest[event]; a step of a call that does not end it with True, and so
\* every call that returns False or raises, leaves the manifest as it was,
\* and a call that returns True changes no other entry; between the calls
\* and at the end of the run the success count is the number of events
\* whose entry was assigned in this run.
C20_TrueIffAssigned ==
    [][/\ (pc \in {"loop", "locate", "fetch", "downloaded"} /\ pc' = "returned") =>
            /\ ret' = "True" <=> name' \in assigned' \ assigned
            /\ ret' = "True" => assigned' = assigned \cup {name'}
            /\ ret' = "True" =>
                \A n \in DOMAIN manifest : n # name' =>
                    n \in DOMAIN manifest' /\ manifest'[n] = manifest[n]
       /\ (pc \in {"loop", "locate", "fetch", "downloaded"}
                /\ pc' \in {"locate", "fetch", "downloaded", "returned"}
                /\ ret' # "True") =>
            manifest' = manifest /\ assigned' = assigned
       /\ pc' \in {"loop", "writing", "done"} =>
            success' = Cardinality(assigned')]_vars

\* A run over two events is through: the call for E1 saved nothing and
\* returned False, the call for E2 recorded it, and the count is 1.
C20_Witness ==
    /\ pc = "done"
    /\ calls = <<"E1", "E2">>
    /\ last["E1"] = "none_saved"
    /\ assigned = {"E2"}
    /\ success = 1

====
